---------------------------- MODULE Spec2Model ----------------------------
(***************************************************************************)
(* Model of the matching core of the AsMacro assembler:                    *)
(*   util/src/functions.rs          stoi and its helpers                   *)
(*   new/asm/src/instruction/mod.rs Expression / OperandType matching,     *)
(*                                  parse_rm                               *)
(*   asm/src/line.rs                Line::split_instruction,               *)
(*                                  get_instruction, imm_operand           *)
(*                                                                         *)
(* Text is a sequence of one-character strings.  Machine integers are      *)
(* little-endian sequences of 16-bit limbs so that 64-bit and 128-bit      *)
(* arithmetic keeps its width.                                             *)
(***************************************************************************)
EXTENDS Integers, Sequences, FiniteSets, TLC

VARIABLES build, table, op, arg, result

vars == <<build, table, op, arg, result>>

-----------------------------------------------------------------------------
(* Machine integers                                                        *)

\* usize is the 64-bit machine word of the x86-64 host.
USIZE_BITS == 64

I128_BITS == 128

LimbBits == 2 * 8

LimbBase == 2 ^ LimbBits

UsizeLimbs == USIZE_BITS \div LimbBits

I128Limbs == I128_BITS \div LimbBits

\* The natural number zero on k limbs.
ZeroLimbs(k) == [i \in 1..k |-> 0]

\* 2^bits - 1 on k limbs.
OnesLimbs(bits, k) ==
    [i \in 1..k |->
        IF LimbBits * i <= bits THEN LimbBase - 1
        ELSE IF LimbBits * (i - 1) < bits THEN 2 ^ (bits - LimbBits * (i - 1)) - 1
        ELSE 0]

\* 2^bits on k limbs.
PowLimbs(bits, k) ==
    [i \in 1..k |-> IF i - 1 = bits \div LimbBits THEN 2 ^ (bits % LimbBits) ELSE 0]

\* A small natural (below 2^31) on k limbs.
RECURSIVE SmallLimbs(_, _)
SmallLimbs(n, k) ==
    IF k = 0 THEN <<>> ELSE <<n % LimbBase>> \o SmallLimbs(n \div LimbBase, k - 1)

\* x * m + c for small m, c: Len(x) limbs followed by the carry out.
RECURSIVE MulAddLimbs(_, _, _)
MulAddLimbs(x, m, c) ==
    IF x = <<>> THEN <<c>>
    ELSE LET t == Head(x) * m + c
         IN  <<t % LimbBase>> \o MulAddLimbs(Tail(x), m, t \div LimbBase)

\* Quotient and remainder of x by a small m, limbs taken from the top.
RECURSIVE DivLimbs(_, _, _, _)
DivLimbs(x, m, i, r) ==
    IF i = 0 THEN [quot |-> <<>>, rem |-> r]
    ELSE LET cur  == r * LimbBase + x[i]
             rest == DivLimbs(x, m, i - 1, cur % m)
         IN  [quot |-> rest.quot \o <<cur \div m>>, rem |-> rest.rem]

\* x < y on naturals of the same number of limbs.
LtLimbs(x, y) ==
    \E i \in 1..Len(x) :
        /\ x[i] < y[i]
        /\ \A j \in (i + 1)..Len(x) : x[j] = y[j]

LeLimbs(x, y) == x = y \/ LtLimbs(x, y)

\* Widening of a natural to k limbs (usize as i128).
Widen(x, k) == x \o ZeroLimbs(k - Len(x))

\* Signed integers: sign and magnitude, zero never negative.
Signed(neg, mag) == [neg |-> neg /\ mag # ZeroLimbs(Len(mag)), mag |-> mag]

\* a <= b on signed integers of the same number of limbs.
LeSigned(a, b) ==
    IF a.neg /\ b.neg THEN LeLimbs(b.mag, a.mag)
    ELSE IF a.neg THEN TRUE
    ELSE IF b.neg THEN FALSE
    ELSE LeLimbs(a.mag, b.mag)

\* iN::MIN, iN::MAX and uN::MAX as i128.
IntMin(bits) == Signed(TRUE, PowLimbs(bits - 1, I128Limbs))

IntMax(bits) == Signed(FALSE, OnesLimbs(bits - 1, I128Limbs))

UintMax(bits) == Signed(FALSE, OnesLimbs(bits, I128Limbs))

\* usize as i128.
AsI128(x) == Signed(FALSE, Widen(x, I128Limbs))

-----------------------------------------------------------------------------
(* Option values and aborted calls                                         *)

Some(v) == [tag |-> "Some", val |-> v]

None == [tag |-> "None", val |-> <<>>]

\* The call did not return: a panic (expect on None, overflow in a debug build).
Panic == [tag |-> "Panic", val |-> <<>>]

IsSome(r) == r.tag = "Some"

-----------------------------------------------------------------------------
(* Text                                                                    *)

WhiteSpace == {" "}

UpperCase ==
    <<"A", "B", "C", "D", "E", "F", "G", "H", "I", "J", "K", "L", "M",
      "N", "O", "P", "Q", "R", "S", "T", "U", "V", "W", "X", "Y", "Z">>

LowerCase ==
    <<"a", "b", "c", "d", "e", "f", "g", "h", "i", "j", "k", "l", "m",
      "n", "o", "p", "q", "r", "s", "t", "u", "v", "w", "x", "y", "z">>

\* to_ascii_lowercase left out: the character is left in its case.
to_ascii_lowercase_kept(c) == c

\* char::to_ascii_lowercase
to_ascii_lowercase(c) ==
    IF \E i \in 1..Len(UpperCase) : UpperCase[i] = c
    THEN LowerCase[CHOOSE i \in 1..Len(UpperCase) : UpperCase[i] = c]
    ELSE c

\* str::trim
RECURSIVE trim_start(_)
trim_start(s) ==
    IF s # <<>> /\ Head(s) \in WhiteSpace THEN trim_start(Tail(s)) ELSE s

RECURSIVE trim_end(_)
trim_end(s) ==
    IF s # <<>> /\ s[Len(s)] \in WhiteSpace
    THEN trim_end(SubSeq(s, 1, Len(s) - 1)) ELSE s

trim(s) == trim_end(trim_start(s))

\* str::split(c): the fields between the occurrences of c, at least one.
RECURSIVE split(_, _)
split(s, c) ==
    IF \E i \in 1..Len(s) : s[i] = c
    THEN LET i == CHOOSE k \in 1..Len(s) : s[k] = c /\ \A j \in 1..(k - 1) : s[j] # c
         IN  <<SubSeq(s, 1, i - 1)>> \o split(SubSeq(s, i + 1, Len(s)), c)
    ELSE <<s>>

\* str::split_once(c): the text before and after the first c.
split_once(s, c) ==
    IF \E i \in 1..Len(s) : s[i] = c
    THEN LET i == CHOOSE k \in 1..Len(s) : s[k] = c /\ \A j \in 1..(k - 1) : s[j] # c
         IN  Some(<<SubSeq(s, 1, i - 1), SubSeq(s, i + 1, Len(s))>>)
    ELSE None

starts_with(s, c) == s # <<>> /\ Head(s) = c

ends_with(s, c) == s # <<>> /\ s[Len(s)] = c

-----------------------------------------------------------------------------
(* util/src/functions.rs                                                   *)

\* The one element of a singleton set.  The(S) with S == {e(x) : x \in {v}}
\* is e with x bound to the value of v, evaluated once, as a `let` of the code.
The(S) == CHOOSE v \in S : TRUE

remove_prefix(s, prefix) ==
    IF Len(prefix) <= Len(s)
    THEN IF SubSeq(s, 1, Len(prefix)) = prefix
         THEN Some(SubSeq(s, Len(prefix) + 1, Len(s)))
         ELSE None
    ELSE None

\* usize::checked_mul by a small factor.
checked_mul(num, m) ==
    The({IF r[Len(num) + 1] # 0 THEN None ELSE Some(SubSeq(r, 1, Len(num))) :
            r \in {MulAddLimbs(num, m, 0)}})

\* num += i: [val, overflow]; the value wraps to the word.
add_assign(num, i) ==
    The({[val |-> SubSeq(r, 1, Len(num)), overflow |-> r[Len(num) + 1] # 0] :
            r \in {MulAddLimbs(num, 1, i)}})

\* The index from 0 of the first n[i] equal to c, or Len(n) when there is none.
digit_index(c, n) ==
    IF \E i \in 1..Len(n) : c = n[i]
    THEN (CHOOSE j \in 1..Len(n) : c = n[j] /\ \A h \in 1..(j - 1) : c # n[h]) - 1
    ELSE Len(n)

\* One turn of stoi_helper's loop on the character c.  acc is Some(num) while
\* the loop runs; None once it has returned None; Panic once num += i has
\* overflowed in a debug build (a release build wraps and goes on).
stoi_helper_step(acc, c, n) ==
    IF acc.tag # "Some" THEN acc
    ELSE LET i    == digit_index(to_ascii_lowercase(c), n)
             muln == checked_mul(acc.val, Len(n))
             sum  == add_assign(muln.val, i)
         IN  IF ~IsSome(muln) THEN None
             ELSE IF i < Len(n)
             THEN IF sum.overflow /\ build = "debug" THEN Panic ELSE Some(sum.val)
             ELSE None

\* The turns of the loop on s[lo..hi], in order, the first half before the
\* second.
RECURSIVE stoi_helper_loop(_, _, _, _, _)
stoi_helper_loop(s, n, lo, hi, acc) ==
    IF lo > hi THEN acc
    ELSE IF lo = hi THEN stoi_helper_step(acc, s[lo], n)
    ELSE The({stoi_helper_loop(s, n, (lo + hi) \div 2 + 1, hi, half) :
                half \in {stoi_helper_loop(s, n, lo, (lo + hi) \div 2, acc)}})

stoi_helper(s, n) == stoi_helper_loop(s, n, 1, Len(s), Some(ZeroLimbs(UsizeLimbs)))

BinaryDigits == <<"0", "1">>

OctalDigits == <<"0", "1", "2", "3", "4", "5", "6", "7">>

DecimalDigits == <<"0", "1", "2", "3", "4", "5", "6", "7", "8", "9">>

HexDigits ==
    <<"0", "1", "2", "3", "4", "5", "6", "7", "8", "9", "a", "b", "c", "d", "e", "f">>

\* `?` on the prefix, then the digits.
stoi_prefixed(s, prefix, n) ==
    The({IF IsSome(rest) THEN stoi_helper(rest.val, n) ELSE None :
            rest \in {remove_prefix(s, prefix)}})

stoi_binary(s) == stoi_prefixed(s, <<"0", "b">>, BinaryDigits)

stoi_octal(s) == stoi_prefixed(s, <<"0", "o">>, OctalDigits)

stoi_decimal(s) == stoi_helper(s, DecimalDigits)

stoi_hex(s) == stoi_prefixed(s, <<"0", "x">>, HexDigits)

\* stoi tries stoi_func[i], i = 1..5, in turn: stoi_minus, stoi_octal,
\* stoi_decimal, stoi_hex, stoi_binary; the first result that is not None is
\* returned.  stoi_minus is stoi of the trimmed text after one "-".
RECURSIVE stoi_from(_, _)
stoi_minus(s) ==
    The({IF IsSome(rest) THEN stoi_from(trim(rest.val), 1) ELSE None :
            rest \in {remove_prefix(s, <<"-">>)}})

stoi_func(i, s) ==
    CASE i = 1 -> stoi_minus(s)
      [] i = 2 -> stoi_octal(s)
      [] i = 3 -> stoi_decimal(s)
      [] i = 4 -> stoi_hex(s)
      [] i = 5 -> stoi_binary(s)

stoi_from(s, i) ==
    IF i > 5 THEN None
    ELSE The({IF r.tag = "None" THEN stoi_from(s, i + 1) ELSE r : r \in {stoi_func(i, s)}})

stoi(s) == stoi_from(s, 1)

-----------------------------------------------------------------------------
(* Register (crate::register)                                              *)

\* The register names and the width class of each.
RegisterTable ==
    << [name |-> <<"r", "a", "x">>, id |-> "rax", bits |-> 64],
       [name |-> <<"r", "b", "x">>, id |-> "rbx", bits |-> 64],
       [name |-> <<"r", "c", "x">>, id |-> "rcx", bits |-> 64],
       [name |-> <<"e", "a", "x">>, id |-> "eax", bits |-> 32],
       [name |-> <<"e", "b", "x">>, id |-> "ebx", bits |-> 32],
       [name |-> <<"a", "x">>,      id |-> "ax",  bits |-> 16],
       [name |-> <<"a", "l">>,      id |-> "al",  bits |-> 8] >>

\* str::parse::<Register>, as an Option (result_to_option).
Register_parse(s) ==
    IF \E i \in 1..Len(RegisterTable) : RegisterTable[i].name = s
    THEN Some(RegisterTable[CHOOSE i \in 1..Len(RegisterTable) :
                                RegisterTable[i].name = s].id)
    ELSE None

Register_bits(r) ==
    RegisterTable[CHOOSE i \in 1..Len(RegisterTable) : RegisterTable[i].id = r].bits

\* Register::is_8bit, is_16bit, is_32bit, is_64bit, selected by the width p.
Register_is(p, r) == Register_bits(r) = p

-----------------------------------------------------------------------------
(* new/asm/src/instruction/mod.rs: operand matching                        *)

\* The value of a small natural held in limbs.
RECURSIVE LimbsValue(_)
LimbsValue(x) == IF x = <<>> THEN 0 ELSE Head(x) + LimbBase * LimbsValue(Tail(x))

IsLimbsOf(x, n) == x = SmallLimbs(n, Len(x))

\* value as i64, for a value already checked to lie in the i64 range.
AsI64(v) == Signed(v.neg, SubSeq(v.mag, 1, UsizeLimbs))

\* i64 as i128
I64AsI128(d) == Signed(d.neg, Widen(d.mag, I128Limbs))

\* min <= value && value <= max
InRange(min, value, max) == LeSigned(min, value) /\ LeSigned(value, max)

\* The displacement of parse_rm: the text before '[' when expr does not
\* start with '[', else 0.
parse_rm_disp(expr) ==
    IF ~starts_with(expr, "[")
    THEN The({
        IF ~IsSome(parts) THEN None
        ELSE The({
            IF ~IsSome(value) THEN value
            ELSE IF InRange(IntMin(64), AsI128(value.val), IntMax(64))
                 THEN Some(AsI64(AsI128(value.val)))
                 ELSE None :
                value \in {stoi(parts.val[1])}}) :
            parts \in {split_once(expr, "[")}})
    ELSE Some(Signed(FALSE, ZeroLimbs(UsizeLimbs)))

\* The scale of parse_rm: the third field, one of 1, 2, 4, 8.
parse_rm_scale(s) ==
    The({IF ~IsSome(value) THEN value
         ELSE IF \E k \in {1, 2, 4, 8} : IsLimbsOf(value.val, k)
              THEN Some(LimbsValue(value.val))
              ELSE None :
            value \in {stoi(s)}})

\* The fields between the brackets: base, then index, then scale; fields
\* after the third are never read.
parse_rm_fields(disp, arguments) ==
    The({
        IF ~IsSome(base) THEN None
        ELSE IF Len(arguments) < 2 THEN Some(<<disp, base.val, None>>)
        ELSE The({
            IF ~IsSome(index) THEN None
            ELSE IF Len(arguments) < 3
                 THEN Some(<<disp, base.val, Some(<<index.val, 1>>)>>)
                 ELSE The({
                    IF ~IsSome(scale) THEN scale
                    ELSE Some(<<disp, base.val, Some(<<index.val, scale.val>>)>>) :
                        scale \in {parse_rm_scale(arguments[3])}}) :
                index \in {Register_parse(arguments[2])}}) :
            base \in {Register_parse(arguments[1])}})

parse_rm(expr) ==
    The({
        IF ~IsSome(disp) THEN disp
        ELSE The({
            IF ~IsSome(parts) THEN None
            ELSE The({
                IF ~ends_with(inner, "]") THEN None
                ELSE parse_rm_fields(disp.val,
                                     split(SubSeq(inner, 1, Len(inner) - 1), ",")) :
                    inner \in {trim(parts.val[2])}}) :
                parts \in {split_once(expr, "[")}}) :
            disp \in {parse_rm_disp(expr)}})

\* A bool result, or Panic.
number_match_with(expr, min, max) ==
    The({IF value.tag = "Panic" THEN Panic
         ELSE Some(IsSome(value) /\ InRange(min, AsI128(value.val), max)) :
            value \in {stoi(expr)}})

register_match_with(expr, p) ==
    The({IF IsSome(value) THEN Register_is(p, value.val) ELSE FALSE :
            value \in {Register_parse(expr)}})

rm_match_with(expr, p, min, max) ==
    IF register_match_with(expr, p) THEN Some(TRUE)
    ELSE The({
        IF rm.tag = "Panic" THEN Panic
        ELSE IF ~IsSome(rm) THEN Some(FALSE)
        ELSE LET base_match_with  == Register_is(p, rm.val[2])
                 index_match_with == IF IsSome(rm.val[3])
                                     THEN Register_is(p, rm.val[3].val[1])
                                     ELSE TRUE
                 disp_match_with  == InRange(min, I64AsI128(rm.val[1]), max)
             IN  Some(base_match_with /\ index_match_with /\ disp_match_with) :
            rm \in {parse_rm(trim(expr))}})

OperandTypes ==
    {"Rel32", "R8", "R16", "R32", "R64", "Imm8", "Imm16", "Imm32", "Imm64",
     "Rm8", "Rm16", "Rm32", "Rm64"}

\* The width of the register predicate and of the displacement range of RmN,
\* of the register predicate of RN, and of the range of ImmN.
WidthOf(self) ==
    CASE self \in {"R8", "Imm8", "Rm8"}                -> 8
      [] self \in {"R16", "Imm16", "Rm16"}             -> 16
      [] self \in {"R32", "Imm32", "Rm32", "Rel32"}    -> 32
      [] self \in {"R64", "Imm64", "Rm64"}             -> 64

\* OperandType::match_with
OperandType_match_with(self, expr) ==
    CASE self = "Rel32" -> number_match_with(expr, IntMin(32), IntMax(32))
      [] self \in {"R8", "R16", "R32", "R64"} ->
            Some(register_match_with(expr, WidthOf(self)))
      [] self \in {"Imm8", "Imm16", "Imm32", "Imm64"} ->
            number_match_with(expr, IntMin(WidthOf(self)), UintMax(WidthOf(self)))
      [] self \in {"Rm8", "Rm16", "Rm32", "Rm64"} ->
            rm_match_with(expr, WidthOf(self), IntMin(WidthOf(self)), IntMax(WidthOf(self)))

-----------------------------------------------------------------------------
(* asm/src/line.rs and Expression                                          *)

LineKinds == {"None", "Label", "AsmCommand", "Instruction", "Unknown"}

\* enum Line: the variant and the text it carries (empty for Line::None).
Line(kind, text) == <<kind, text>>

Line_kind(self) == self[1]

Line_text(self) == self[2]

\* split_instruction without its test for a fourth token.
split_instruction_unchecked(self) ==
    IF Line_kind(self) = "Instruction"
    THEN The({
        LET mnemonic == s_split[1]
            operand1 == IF Len(s_split) >= 2 THEN Some(s_split[2]) ELSE None
            operand2 == IF Len(s_split) >= 3 THEN Some(s_split[3]) ELSE None
        IN  Some(<<mnemonic, <<operand1, operand2>>>>) :
            s_split \in {split(trim(Line_text(self)), " ")}})
    ELSE None

\* Line::split_instruction: (mnemonic, [operand1, operand2])
split_instruction(self) ==
    IF Line_kind(self) = "Instruction"
    THEN The({
        LET mnemonic == s_split[1]
            operand1 == IF Len(s_split) >= 2 THEN Some(s_split[2]) ELSE None
            operand2 == IF Len(s_split) >= 3 THEN Some(s_split[3]) ELSE None
        IN  IF Len(s_split) < 4
            THEN Some(<<mnemonic, <<operand1, operand2>>>>)
            ELSE None :
            s_split \in {split(trim(Line_text(self)), " ")}})
    ELSE None

\* Line::mnemonic
Line_mnemonic(self) ==
    The({IF IsSome(t) THEN Some(t.val[1]) ELSE None : t \in {split_instruction(self)}})

\* Line::operands
Line_operands(self) ==
    The({IF IsSome(t) THEN Some(t.val[2]) ELSE None : t \in {split_instruction(self)}})

\* Expression::mnemonic_match_with
mnemonic_match_with(self, line) == Line_mnemonic(line) = Some(self.mnemonic)

\* Expression::operands_match_with, slot i onwards: a bool result, or Panic.
RECURSIVE operands_match_from(_, _, _)
operands_match_from(self, operands, i) ==
    IF i > 2 THEN Some(TRUE)
    ELSE IF IsSome(self.operands[i])
    THEN IF ~IsSome(operands[i]) THEN Some(FALSE)
         ELSE The({
            IF m.tag = "Panic" THEN Panic
            ELSE IF ~m.val THEN Some(FALSE)
            ELSE operands_match_from(self, operands, i + 1) :
                m \in {OperandType_match_with(self.operands[i].val, operands[i].val)}})
    ELSE operands_match_from(self, operands, i + 1)

operands_match_with(self, line) ==
    The({IF ~IsSome(operands) THEN Some(FALSE)
         ELSE operands_match_from(self, operands.val, 1) :
            operands \in {Line_operands(line)}})

\* Expression::match_with: mnemonic first, operands only when it matches.
Expression_match_with(self, line) ==
    IF mnemonic_match_with(self, line) THEN operands_match_with(self, line)
    ELSE Some(FALSE)

\* Instruction::match_with
Instruction_match_with(self, line) == Expression_match_with(self.expression, line)

\* Expression::get_operand_index_by_type (slots numbered from 1 here)
get_operand_index_by_type(self, operand_type) ==
    IF self.operands[1] = Some(operand_type) THEN Some(1)
    ELSE IF self.operands[2] = Some(operand_type) THEN Some(2)
    ELSE None

\* Line::get_instruction over the entries from index i of the table.
RECURSIVE get_instruction_from(_, _)
get_instruction_from(self, i) ==
    IF i > Len(table) THEN None
    ELSE The({
        IF m.tag = "Panic" THEN Panic
        ELSE IF m.val THEN Some(table[i])
        ELSE get_instruction_from(self, i + 1) :
            m \in {Instruction_match_with(table[i], self)}})

get_instruction(self) == get_instruction_from(self, 1)

\* Line::get_operand_by_type
get_operand_by_type(self, operand_type) ==
    The({
        IF ~IsSome(instruction) THEN instruction
        ELSE The({
            IF ~IsSome(operand_index) THEN None
            ELSE The({
                IF ~IsSome(operands) THEN None ELSE operands.val[operand_index.val] :
                    operands \in {Line_operands(self)}}) :
                operand_index \in
                    {get_operand_index_by_type(instruction.val.expression, operand_type)}}) :
            instruction \in {get_instruction(self)}})

\* The .or_else chain of imm_operand over the operand types in its order.
ImmOperandTypes == <<"Imm8", "Imm16", "Imm32", "Imm64", "Rel8", "Rel16", "Rel32">>

RECURSIVE imm_operand_slot(_, _)
imm_operand_slot(self, i) ==
    IF i > Len(ImmOperandTypes) THEN None
    ELSE The({IF t.tag = "None" THEN imm_operand_slot(self, i + 1) ELSE t :
                t \in {get_operand_by_type(self, ImmOperandTypes[i])}})

\* is_keyword (crate::functions): an identifier.
IdentifierChars ==
    {LowerCase[i] : i \in 1..Len(LowerCase)} \cup {UpperCase[i] : i \in 1..Len(UpperCase)}
    \cup {DecimalDigits[i] : i \in 1..Len(DecimalDigits)} \cup {"_"}

is_keyword(s) ==
    /\ s # <<>>
    /\ \A i \in 1..Len(s) : s[i] \in IdentifierChars
    /\ \A i \in 1..Len(DecimalDigits) : s[1] # DecimalDigits[i]

Value(n) == [reloc |-> "Value", val |-> n]

Label(name) == [reloc |-> "Label", val |-> name]

\* The rest of imm_operand once the operand token is found.
imm_operand_of(operand) ==
    The({IF n.tag = "Panic" THEN Panic
         ELSE IF IsSome(n) THEN Some(Value(n.val))
         ELSE IF is_keyword(operand) THEN Some(Label(operand))
         ELSE None :
            n \in {stoi(operand)}})

\* Line::imm_operand; expect("invalid input") aborts when no slot is found.
imm_operand(self) ==
    The({IF ~IsSome(operand) THEN Panic ELSE imm_operand_of(operand.val) :
            operand \in {imm_operand_slot(self, 1)}})

-----------------------------------------------------------------------------
(* The instruction table (instruction_database::INSTRUCTION_LIST)          *)

Instruction(opecode, mnemonic, operand1, operand2) ==
    [encoding   |-> [opecode |-> opecode],
     expression |-> [mnemonic |-> mnemonic, operands |-> <<operand1, operand2>>]]

MOV == <<"m", "o", "v">>

PUSH == <<"p", "u", "s", "h">>

JMP == <<"j", "m", "p">>

ADD == <<"a", "d", "d">>

\* The illustrative table: MOV R64 Imm64, PUSH R64, JMP Rel32, ADD Rm64 R64.
IllustrativeTable ==
    << Instruction(<<184>>, MOV, Some("R64"), Some("Imm64")),
       Instruction(<<80>>, PUSH, Some("R64"), None),
       Instruction(<<233>>, JMP, Some("Rel32"), None),
       Instruction(<<1>>, ADD, Some("Rm64"), Some("R64")) >>

\* Entries that share a mnemonic and overlap: an Imm8 token is an Imm32 token,
\* a register is an rm operand.
OverlappingTable ==
    << Instruction(<<131>>, ADD, Some("Rm64"), Some("Imm8")),
       Instruction(<<129>>, ADD, Some("Rm64"), Some("Imm32")),
       Instruction(<<1>>, ADD, Some("Rm64"), Some("R64")),
       Instruction(<<3>>, ADD, Some("R64"), Some("Rm64")),
       Instruction(<<106>>, PUSH, Some("Imm8"), None),
       Instruction(<<104>>, PUSH, Some("Imm32"), None),
       Instruction(<<80>>, PUSH, Some("R64"), None),
       Instruction(<<233>>, JMP, Some("Rel32"), None) >>

Reverse(t) == [i \in 1..Len(t) |-> t[Len(t) + 1 - i]]

Tables == {IllustrativeTable, OverlappingTable, Reverse(OverlappingTable)}

-----------------------------------------------------------------------------
(* Written forms of numbers, used to build inputs                          *)

\* Largest of the small numbers 0..MaxSmall that are written out as inputs.
MaxSmall == 3

\* The digits of the natural x in base Len(n), most significant first;
\* upper = TRUE writes the letters in upper case.
RECURSIVE DigitsOf(_, _, _)
DigitsOf(x, n, upper) ==
    IF x = ZeroLimbs(Len(x)) THEN <<>>
    ELSE LET qr == DivLimbs(x, Len(n), Len(x), 0)
             d  == n[qr.rem + 1]
             c  == IF upper /\ \E i \in 1..Len(LowerCase) : LowerCase[i] = d
                   THEN UpperCase[CHOOSE i \in 1..Len(LowerCase) : LowerCase[i] = d]
                   ELSE d
         IN  DigitsOf(qr.quot, n, upper) \o <<c>>

Bases == {"bin", "oct", "dec", "hex", "HEX"}

PrefixOf(b) ==
    CASE b = "bin" -> <<"0", "b">>
      [] b = "oct" -> <<"0", "o">>
      [] b = "dec" -> <<>>
      [] OTHER     -> <<"0", "x">>

AlphabetOf(b) ==
    CASE b = "bin" -> BinaryDigits
      [] b = "oct" -> OctalDigits
      [] b = "dec" -> DecimalDigits
      [] OTHER     -> HexDigits

\* The natural x written in base b with its prefix.
Written(x, b) ==
    PrefixOf(b) \o (IF x = ZeroLimbs(Len(x)) THEN <<"0">>
                    ELSE DigitsOf(x, AlphabetOf(b), b = "HEX"))

\* The signed integer v written in base b: "-" before the magnitude.
WrittenSigned(v, b) == (IF v.neg THEN <<"-">> ELSE <<>>) \o Written(v.mag, b)

\* x + 1 and x - 1 on naturals (x - 1 for x > 0).
Succ(x) == SubSeq(MulAddLimbs(x, 1, 1), 1, Len(x))

Pred(x) ==
    LET k == CHOOSE i \in 1..Len(x) : x[i] # 0 /\ \A j \in 1..(i - 1) : x[j] = 0
    IN  [i \in 1..Len(x) |-> IF i < k THEN LimbBase - 1 ELSE IF i = k THEN x[i] - 1 ELSE x[i]]

\* The widths whose limits the operand types test.
Widths == {8, 16, 32, 64}

\* Naturals around the limits of every width, and the small ones.
TestNaturals ==
    {SmallLimbs(n, I128Limbs) : n \in 0..MaxSmall}
    \cup UNION {{Pred(PowLimbs(w - 1, I128Limbs)), PowLimbs(w - 1, I128Limbs),
                 Succ(PowLimbs(w - 1, I128Limbs)),
                 Pred(PowLimbs(w, I128Limbs)), PowLimbs(w, I128Limbs)} : w \in Widths}
    \cup {SmallLimbs(254, I128Limbs), SmallLimbs(1328, I128Limbs)}

\* Those that fit the machine word.
FitsUsize(x) == \A i \in (UsizeLimbs + 1)..Len(x) : x[i] = 0

TestSigned == {Signed(neg, x) : neg \in BOOLEAN, x \in TestNaturals}

\* Texts that are no literal of the grammar, or are at its edges.
OddTexts ==
    { <<>>, <<"0", "x">>, <<"0", "b">>, <<"0", "o">>, <<"-">>,
      <<"1", "2", "a">>, <<"0", "b", "1", "2">>, <<"0", "o", "8">>,
      <<"0", "x", "g">>, <<" ", "5">>, <<"5", " ">>, <<"-", " ", "5">>,
      <<"-", "-", "5">>, <<"0", "X", "1", "f">>, <<"-", "0", "x">>,
      <<"l", "o", "o", "p">>, <<"r", "a", "x">>, <<"1", "_", "0">>,
      <<"+", "5">>, <<"0", "0", "7">>, <<"-", "0">> }

NumberTexts == {WrittenSigned(v, b) : v \in TestSigned, b \in Bases}

StoiTexts == NumberTexts \cup OddTexts

-----------------------------------------------------------------------------
(* Written forms of memory operands and lines                              *)

\* The largest scale written into a memory operand (the valid ones are 1, 2, 4, 8).
MaxScale == 9

\* The most tokens written after the two operands of a line.
MaxExtra == 1

RECURSIVE Join(_, _)
Join(fields, sep) ==
    IF Len(fields) = 0 THEN <<>>
    ELSE IF Len(fields) = 1 THEN fields[1]
    ELSE fields[1] \o <<sep>> \o Join(Tail(fields), sep)

\* disp[fields...]
WrittenRm(disp, fields) == disp \o <<"[">> \o Join(fields, ",") \o <<"]">>

ScaleText(k) == Written(SmallLimbs(k, UsizeLimbs), "dec")

RegisterNames == {RegisterTable[i].name : i \in 1..Len(RegisterTable)}

NoRegister == <<"x", "y", "z">>

\* Displacements around 0 and around the limits of i32 and i64.
RmDisplacements ==
    {Signed(neg, x) : neg \in BOOLEAN,
                      x \in {SmallLimbs(0, I128Limbs), SmallLimbs(8, I128Limbs),
                             Pred(PowLimbs(31, I128Limbs)), PowLimbs(31, I128Limbs),
                             Pred(PowLimbs(63, I128Limbs)), PowLimbs(63, I128Limbs),
                             Succ(PowLimbs(63, I128Limbs))}}

SmallDisplacements ==
    {Signed(neg, SmallLimbs(n, I128Limbs)) : neg \in BOOLEAN, n \in {0, 8}}

RmBases == {<<"r", "a", "x">>, <<"e", "a", "x">>, <<"a", "l">>, NoRegister}

RmIndexes == {<<"r", "b", "x">>, <<"e", "b", "x">>, NoRegister}

\* d[base,index,scale]: every displacement with the scale 4, and every scale
\* with the small displacements.
ScaledRmTexts ==
    {WrittenRm(WrittenSigned(d, "dec"), <<b, i, ScaleText(4)>>) :
        d \in RmDisplacements, b \in RmBases, i \in RmIndexes}
    \cup {WrittenRm(WrittenSigned(d, "dec"), <<b, i, ScaleText(k)>>) :
        d \in SmallDisplacements, b \in RmBases, i \in RmIndexes, k \in 0..MaxScale}

\* d[base,index], d[base] and [base]
UnscaledRmTexts ==
    {WrittenRm(WrittenSigned(d, "dec"), <<b, i>>) :
        d \in SmallDisplacements, b \in RmBases, i \in RmIndexes}
    \cup {WrittenRm(WrittenSigned(d, "dec"), <<b>>) : d \in RmDisplacements, b \in RmBases}
    \cup {WrittenRm(<<>>, <<b>>) : b \in RmBases}

WellFormedRmTexts == ScaledRmTexts \cup UnscaledRmTexts

RAX == <<"r", "a", "x">>

RBX == <<"r", "b", "x">>

RCX == <<"r", "c", "x">>

\* Memory operands that break the grammar in one place.
OddRmTexts ==
    { <<"0">> \o RAX \o <<"]">>,
      <<"0", "[">> \o RAX,
      RAX,
      <<"0", "[", "]">>,
      <<"[", "]">>,
      <<>>,
      <<"q", "[">> \o RAX \o <<"]">>,
      <<"0", " ", "[">> \o RAX \o <<"]">>,
      <<"0", "x", "1", "0", "[">> \o RAX \o <<"]">>,
      WrittenRm(<<"0">>, <<RAX, RBX, <<"4">>, RCX>>),
      WrittenRm(<<"0">>, <<RAX, RBX, <<"4">>, <<>>>>),
      WrittenRm(<<"0">>, <<RAX, RBX, <<"4">>, <<"4">>, <<"4">>>>),
      WrittenRm(<<"0">>, <<RAX, RBX, <<>>>>),
      WrittenRm(<<"0">>, <<RAX, RBX, <<"x">>>>),
      WrittenRm(<<"0">>, <<RAX, RBX, <<"0", "x", "4">>>>),
      WrittenRm(<<"0">>, <<RAX, <<" ">> \o RBX, <<"4">>>>),
      WrittenRm(<<"0">>, <<RAX, RBX, <<"4">>>>) \o <<" ">>,
      WrittenRm(<<"0">>, <<RAX, RBX, <<"4">>>>) \o <<"]">>,
      WrittenRm(<<"0">>, <<RAX, RBX, <<"4">>>>) \o <<"x">>,
      <<"0", "[", " ">> \o RAX \o <<"]">>,
      <<"0", "[">> \o RAX \o <<" ", "]">> }

ParseRmTexts == WellFormedRmTexts \cup OddRmTexts

\* The expressions each operand type is matched against.
MatchWithTexts(t) ==
    IF t \in {"Rel32", "Imm8", "Imm16", "Imm32", "Imm64"}
    THEN StoiTexts \cup {RAX}
    ELSE IF t \in {"R8", "R16", "R32", "R64"}
    THEN RegisterNames \cup {NoRegister, <<"5">>, <<>>, RAX \o <<" ">>}
    ELSE RegisterNames \cup {NoRegister, <<" ">> \o RAX} \cup ParseRmTexts

\* Operand tokens of the lines.
FirstOperands ==
    { RAX, <<"e", "a", "x">>, <<"5">>, <<"-", "1", "2", "9">>,
      <<"l", "o", "o", "p", "_", "s", "t", "a", "r", "t">>, <<"1", "l">>,
      WrittenRm(<<"-", "8">>, <<RAX, RBX, <<"4">>>>),
      WrittenRm(<<"0">>, <<RAX, RBX, <<"5">>>>),
      Written(PowLimbs(32, I128Limbs), "dec"),
      Written(PowLimbs(64, I128Limbs), "dec"),
      <<>> }

SecondOperands ==
    { RCX, <<"1", "0", "0", "0">>, <<"0", "x", "F", "F">>, <<"l", "o", "o", "p">>,
      <<"[", "r", "b", "x", "]">> }

Mnemonics == {MOV, PUSH, JMP, ADD, <<"n", "o", "p">>}

\* k tokens "rcx"
ExtraTokens(k) == [i \in 1..k |-> RCX]

\* Lines of one to 3 + MaxExtra tokens, and lines with spaces around them.
LineTexts ==
    LET plain == Mnemonics
                 \cup {Join(<<m, a>>, " ") : m \in Mnemonics, a \in FirstOperands}
                 \cup {Join(<<m, a, b>> \o ExtraTokens(k), " ") :
                         m \in Mnemonics, a \in FirstOperands,
                         b \in SecondOperands, k \in 0..MaxExtra}
        spaced == {Join(<<m, a, RCX>>, " ") : m \in {PUSH, ADD}, a \in {RAX, <<"5">>}}
    IN  plain \cup {<<" ">> \o x : x \in spaced} \cup {x \o <<" ">> : x \in spaced}
              \cup {<<>>, <<" ">>}

Lines ==
    {Line("Instruction", x) : x \in LineTexts}
    \cup {Line(k, x) : k \in LineKinds \ {"Instruction", "None"},
                       x \in {Join(<<PUSH, RAX>>, " "), <<"l", ":">>}}
    \cup {Line("None", <<>>)}

-----------------------------------------------------------------------------
(* The calls                                                               *)

Builds == {"debug", "release"}

Init ==
    /\ build \in Builds
    /\ table \in Tables
    /\ op = "idle"
    /\ arg = <<>>
    /\ result = None

\* stoi(s)
CallStoi ==
    /\ op = "idle"
    /\ \E s \in StoiTexts :
        /\ op' = "stoi"
        /\ arg' = s
        /\ result' = stoi(s)
    /\ UNCHANGED <<build, table>>

\* parse_rm(expr)
CallParseRm ==
    /\ op = "idle"
    /\ \E expr \in ParseRmTexts :
        /\ op' = "parse_rm"
        /\ arg' = expr
        /\ result' = parse_rm(expr)
    /\ UNCHANGED <<build, table>>

\* OperandType::match_with(self, expr)
CallMatchWith ==
    /\ op = "idle"
    /\ \E self \in OperandTypes :
        \E expr \in MatchWithTexts(self) :
            /\ op' = "match_with"
            /\ arg' = <<self, expr>>
            /\ result' = OperandType_match_with(self, expr)
    /\ UNCHANGED <<build, table>>

\* Line::split_instruction(self)
CallSplitInstruction ==
    /\ op = "idle"
    /\ \E self \in Lines :
        /\ op' = "split_instruction"
        /\ arg' = self
        /\ result' = split_instruction(self)
    /\ UNCHANGED <<build, table>>

\* Line::get_instruction(self)
CallGetInstruction ==
    /\ op = "idle"
    /\ \E self \in Lines :
        /\ op' = "get_instruction"
        /\ arg' = self
        /\ result' = get_instruction(self)
    /\ UNCHANGED <<build, table>>

\* Line::imm_operand(self)
CallImmOperand ==
    /\ op = "idle"
    /\ \E self \in Lines :
        /\ op' = "imm_operand"
        /\ arg' = self
        /\ result' = imm_operand(self)
    /\ UNCHANGED <<build, table>>

\* The caller takes the result.
Return ==
    /\ op # "idle"
    /\ op' = "idle"
    /\ arg' = <<>>
    /\ result' = None
    /\ UNCHANGED <<build, table>>

Next ==
    \/ CallStoi
    \/ CallParseRm
    \/ CallMatchWith
    \/ CallSplitInstruction
    \/ CallGetInstruction
    \/ CallImmOperand
    \/ Return

Spec == Init /\ [][Next]_vars

-----------------------------------------------------------------------------
(* Claims about stoi                                                       *)

\* The naturals of TestNaturals that fit usize, each written in every base.
C7_Cases ==
    {[text |-> Written(n, b), n |-> SubSeq(n, 1, UsizeLimbs)] :
        n \in {x \in TestNaturals : FitsUsize(x)}, b \in Bases}

\* C7: stoi of a non-negative integer n that fits the result type, written in
\* base 2, 8, 10 or 16 with its prefix (hex digits in either case), is Some(n).
C7_RoundTrip ==
    op = "stoi" => \A c \in C7_Cases : arg = c.text => result = Some(c.n)

\* C7 witness: usize::MAX written in upper-case hex has been parsed back.
C7_Witness ==
    /\ op = "stoi"
    /\ arg = Written(OnesLimbs(USIZE_BITS, I128Limbs), "HEX")
    /\ result = Some(OnesLimbs(USIZE_BITS, UsizeLimbs))

\* C8: when stoi parses the text t to n, stoi of "-" followed by t is -n.
C8_MinusNegates ==
    (/\ op = "stoi"
     /\ arg # <<>>
     /\ Head(arg) = "-"
     /\ IsSome(stoi(Tail(arg))))
    => /\ IsSome(result)
       /\ AsI128(result.val) = Signed(TRUE, Widen(stoi(Tail(arg)).val, I128Limbs))

\* The digits of a text after one optional "-" and the prefix of its radix,
\* and the alphabet of that radix.
C9_Unsigned(t) == IF starts_with(t, "-") THEN Tail(t) ELSE t

C9_Radix(t) ==
    IF IsSome(remove_prefix(t, <<"0", "x">>)) THEN "hex"
    ELSE IF IsSome(remove_prefix(t, <<"0", "o">>)) THEN "oct"
    ELSE IF IsSome(remove_prefix(t, <<"0", "b">>)) THEN "bin"
    ELSE "dec"

C9_Digits(t) == SubSeq(t, Len(PrefixOf(C9_Radix(t))) + 1, Len(t))

C9_HasForeignChar(t) ==
    \E i \in 1..Len(C9_Digits(t)) :
        \A j \in 1..Len(AlphabetOf(C9_Radix(t))) :
            to_ascii_lowercase(C9_Digits(t)[i]) # AlphabetOf(C9_Radix(t))[j]

\* C9: stoi is None for the empty text, for a prefix with no digit after it,
\* and for a text with a character outside the alphabet of its radix.
C9_RejectsMalformed ==
    (/\ op = "stoi"
     /\ \/ arg = <<>>
        \/ arg \in {<<"0", "x">>, <<"0", "b">>, <<"0", "o">>}
        \/ C9_HasForeignChar(C9_Unsigned(arg)))
    => result = None

-----------------------------------------------------------------------------
(* Claims about Line::split_instruction                                    *)

\* The number of spaces of a text: one less than its number of tokens.
C6_Spaces(t) == Cardinality({i \in 1..Len(t) : t[i] = " "})

\* The mnemonic and the operands that are present, in order.
C6_Tokens(r) ==
    <<r[1]>> \o (IF IsSome(r[2][1]) THEN <<r[2][1].val>> ELSE <<>>)
             \o (IF IsSome(r[2][2]) THEN <<r[2][2].val>> ELSE <<>>)

\* The result for the text t: None when t has a fourth token, else tokens
\* without a space, the operands filled from the left, which joined by single
\* spaces give t back.
C6_SplitOf(kind, t, r) ==
    IF kind = "Instruction" /\ C6_Spaces(t) < 3
    THEN /\ IsSome(r)
         /\ Join(C6_Tokens(r.val), " ") = t
         /\ \A k \in 1..Len(C6_Tokens(r.val)) : C6_Spaces(C6_Tokens(r.val)[k]) = 0
         /\ Len(C6_Tokens(r.val)) = C6_Spaces(t) + 1
    ELSE r = None

\* C6 as amended: split_instruction on Instruction(text) splits the text,
\* trimmed of the whitespace around it, on single spaces; it returns the
\* first token and [second or None, third or None] when there are at most
\* three tokens and None when there is a fourth; it returns None on every
\* other Line variant.
C6_SplitTrimmed ==
    op = "split_instruction" => C6_SplitOf(Line_kind(arg), trim(Line_text(arg)), result)

\* C6 as stated: the text itself is split on single spaces.
C6_SplitRaw ==
    op = "split_instruction" => C6_SplitOf(Line_kind(arg), Line_text(arg), result)

\* C6 witness: a line with a space after its third token has been split into
\* its mnemonic and two operands.
C6_Witness ==
    /\ op = "split_instruction"
    /\ arg = Line("Instruction", Join(<<PUSH, RAX, RCX>>, " ") \o <<" ">>)
    /\ result = Some(<<PUSH, <<Some(RAX), Some(RCX)>>>>)

-----------------------------------------------------------------------------
(* Claims about OperandType::match_with and parse_rm                       *)

\* The signed integers of TestSigned, each written in every base.
C3_Cases == {[text |-> WrittenSigned(v, b), v |-> v] : v \in TestSigned, b \in Bases}

\* Tokens that are no literal.
C3_NoLiterals ==
    {RAX, <<"l", "o", "o", "p">>, <<"1", "2", "a">>, <<"+", "5">>, <<"1", "_", "0">>,
     <<"0", "o", "8">>, <<"0", "b", "1", "2">>, <<"0", "x", "g">>}

\* C3: ImmN (N = 8, 16, 32, 64) accepts exactly the tokens that are a literal
\* whose signed value lies in [iN::MIN, uN::MAX]: Imm8 accepts "-128" and
\* "255" and rejects "256" and "-129".
C3_ImmRange ==
    (op = "match_with" /\ arg[1] \in {"Imm8", "Imm16", "Imm32", "Imm64"})
    => /\ \A c \in C3_Cases :
            arg[2] = c.text =>
                result = Some(InRange(IntMin(WidthOf(arg[1])), 
                                      Signed(c.v.neg, c.v.mag),
                                      UintMax(WidthOf(arg[1]))))
       /\ arg[2] \in C3_NoLiterals => result = Some(FALSE)

\* C4: Rm32 accepts a bare 32-bit register name and "0[rax,rbx,4]", and
\* rejects a bare 64-bit register name and "0[rax,rbx,3]".
C4_Rm32 ==
    (op = "match_with" /\ arg[1] = "Rm32")
    => /\ (\E i \in 1..Len(RegisterTable) :
                RegisterTable[i].bits = 32 /\ arg[2] = RegisterTable[i].name)
            => result = Some(TRUE)
       /\ arg[2] = WrittenRm(<<"0">>, <<RAX, RBX, <<"4">>>>) => result = Some(TRUE)
       /\ (\E i \in 1..Len(RegisterTable) :
                RegisterTable[i].bits = 64 /\ arg[2] = RegisterTable[i].name)
            => result = Some(FALSE)
       /\ arg[2] = WrittenRm(<<"0">>, <<RAX, RBX, <<"3">>>>) => result = Some(FALSE)

\* The displacements of the i64 range and the registers, written as
\* d[base,index,scale] and as d[base], each with the triple it stands for.
C5_Displacements ==
    {d \in RmDisplacements : InRange(IntMin(64), d, IntMax(64))}

C5_Scaled ==
    {[text   |-> WrittenRm(WrittenSigned(d, "dec"), <<b, i, ScaleText(k)>>),
      expect |-> Some(<<AsI64(d), Register_parse(b).val,
                        Some(<<Register_parse(i).val, k>>)>>)] :
        d \in C5_Displacements, b \in RmBases \ {NoRegister},
        i \in RmIndexes \ {NoRegister}, k \in {1, 2, 4, 8}}

C5_Unscaled ==
    {[text   |-> WrittenRm(WrittenSigned(d, "dec"), <<b>>),
      expect |-> Some(<<AsI64(d), Register_parse(b).val, None>>)] :
        d \in C5_Displacements, b \in RmBases \ {NoRegister}}

\* C5: parse_rm of "d[base,index,scale]" is (d, base, Some((index, scale)))
\* and of "d[base]" is (d, base, None), for every register pair, every scale
\* in {1,2,4,8} and every d of the i64 range, negative ones included.
C5_RoundTrip ==
    op = "parse_rm" =>
        \A c \in C5_Scaled \cup C5_Unscaled : arg = c.text => result = c.expect

\* The parts of a memory operand text: what is before the first '[', and the
\* fields between it and the closing ']' that ends the text.
C10_Before(t) == split_once(t, "[").val[1]

C10_Inside(t) == trim(split_once(t, "[").val[2])

C10_Fields(t) == split(SubSeq(C10_Inside(t), 1, Len(C10_Inside(t)) - 1), ",")

C10_BadScale(f) ==
    ~IsSome(stoi(f)) \/ \A k \in {1, 2, 4, 8} : ~IsLimbsOf(stoi(f).val, k)

C10_Malformed(t) ==
    \/ \A i \in 1..Len(t) : t[i] # "["
    \/ \A i \in 1..Len(t) : t[i] # "]"
    \/ /\ \E i \in 1..Len(t) : t[i] = "["
       /\ C10_Before(t) # <<>>
       /\ stoi(C10_Before(t)) = None
    \/ /\ \E i \in 1..Len(t) : t[i] = "["
       /\ ends_with(C10_Inside(t), "]")
       /\ \/ Len(C10_Fields(t)) > 3
          \/ C10_Fields(t)[1] \notin RegisterNames
          \/ Len(C10_Fields(t)) >= 2 /\ C10_Fields(t)[2] \notin RegisterNames
          \/ Len(C10_Fields(t)) >= 3 /\ C10_BadScale(C10_Fields(t)[3])

\* C10: parse_rm is None for a text without '[' or without ']', with an
\* unparseable displacement or scale, with a base or index that is no
\* register, with a scale outside {1,2,4,8}, or with more than three fields
\* between the brackets.
C10_RejectsMalformed ==
    (op = "parse_rm" /\ C10_Malformed(arg)) => result = None

-----------------------------------------------------------------------------
(* Claims about Line::get_instruction and Line::imm_operand                *)

\* The entry's mnemonic is the line's first token and every slot the entry
\* declares has a token that its type matches.
C1_Satisfies(entry, line) ==
    /\ Line_mnemonic(line) = Some(entry.expression.mnemonic)
    /\ \A i \in 1..2 :
        IsSome(entry.expression.operands[i]) =>
            /\ IsSome(Line_operands(line).val[i])
            /\ OperandType_match_with(entry.expression.operands[i].val,
                                      Line_operands(line).val[i].val) = Some(TRUE)

\* C1: get_instruction returns the lowest-indexed entry of the table whose
\* mnemonic is the line's first token and whose declared slots are each
\* matched by the token at that slot (slots declared None are not checked),
\* and None exactly when there is no such entry.
C1_FirstMatch ==
    op = "get_instruction" =>
        IF \E k \in 1..Len(table) : C1_Satisfies(table[k], arg)
        THEN result = Some(table[CHOOSE k \in 1..Len(table) :
                                    /\ C1_Satisfies(table[k], arg)
                                    /\ \A j \in 1..(k - 1) : ~C1_Satisfies(table[j], arg)])
        ELSE result = None

C2_ImmFamily == {ImmOperandTypes[i] : i \in 1..Len(ImmOperandTypes)}

\* Value(n) for a literal n, Label(token) for a keyword, else None.
C2_Relocation(t) ==
    IF IsSome(stoi(t)) THEN Some(Value(stoi(t).val))
    ELSE IF is_keyword(t) THEN Some(Label(t))
    ELSE None

\* The line is a mnemonic and one operand, and the table's entries of that
\* mnemonic (at least one) declare one slot, of an immediate or relative type.
C2_ImmLine(line) ==
    /\ IsSome(Line_operands(line))
    /\ IsSome(Line_operands(line).val[1])
    /\ ~IsSome(Line_operands(line).val[2])
    /\ \E k \in 1..Len(table) : Line_mnemonic(line) = Some(table[k].expression.mnemonic)
    /\ \A k \in 1..Len(table) :
        Line_mnemonic(line) = Some(table[k].expression.mnemonic) =>
            /\ IsSome(table[k].expression.operands[1])
            /\ table[k].expression.operands[1].val \in C2_ImmFamily
            /\ ~IsSome(table[k].expression.operands[2])

\* C2: for a line such as "jmp loop_start" against a table with JMP Rel32,
\* imm_operand is Value(n) when the operand is the literal n, Label(operand)
\* when it is no literal but a keyword, and None otherwise.
C2_ImmOperand ==
    (op = "imm_operand" /\ C2_ImmLine(arg))
    => result = C2_Relocation(Line_operands(arg).val[1].val)

-----------------------------------------------------------------------------
(* Claim about overflow in stoi_helper                                     *)

\* The naturals above usize::MAX, each written in every base: the
\* accumulation of every one of them exceeds usize::MAX at some step, in the
\* multiplication (bases 2, 8, 16) or in the digit addition (base 10).
C11_Cases == {Written(n, b) : n \in {x \in TestNaturals : ~FitsUsize(x)}, b \in Bases}

\* C11: when num * base + digit exceeds usize::MAX at a step of stoi_helper's
\* accumulation, in the multiplication or in the addition, the result is
\* None: never a wrapped value, never an abort.
C11_OverflowIsNone ==
    (op = "stoi" /\ arg \in C11_Cases) => result = None

=============================================================================
